---- MODULE Spec2Model ----
(***************************************************************************)
(* Model of runtime/stubs.c of svd2odin: the two freestanding libc stubs   *)
(*   void abort(void)            { while(1); }                             *)
(*   void *__aeabi_read_tp(void) { return 0; }   (the null pointer)        *)
(* driven by a single flow of control (the calling code), which may write  *)
(* memory, load the result register, use the interrupt helpers of          *)
(* interrupt_helpers.s, and call either stub.                              *)
(***************************************************************************)
EXTENDS Integers, Naturals, Sequences, FiniteSets, TLC

\* ---- bounds of the model ----
MaxSite == 4        \* number of program points of the calling code
NumCells == 2       \* memory cells visible to the program
MaxVal == 1         \* largest word value stored in a cell or register

Cells == 1..NumCells
Values == 0..MaxVal
Sites == 0..MaxSite

VARIABLES
    pc,        \* where control is: "caller", "abort_test", "abort_body", "read_tp"
    site,      \* program point of the calling code
    stack,     \* return addresses of the calls in progress
    mem,       \* program-visible memory
    irq,       \* interrupt-enable state
    r0,        \* result register
    primLog,   \* interrupt primitives invoked so far, as <<who, primitive>>
    returned,  \* values returned so far by __aeabi_read_tp, in call order
    aborted    \* abort() has been invoked

vars == <<pc, site, stack, mem, irq, r0, primLog, returned, aborted>>

\* ---- interrupt helpers (interrupt_helpers.s) ----
disable_interrupts(i) == FALSE
enable_interrupts(i) == TRUE
wait_for_interrupt(i) == i

\* ---- stubs.c ----

\* controlling expression of the loop in abort(): while(1)
LoopCond == 1

\* value of the return expression of __aeabi_read_tp(): the null pointer
ReadTpValueStale == r0
ReadTpValue == 0

InAbort == pc \in {"abort_test", "abort_body"}
InReadTp == pc = "read_tp"

Init ==
    /\ pc = "caller"
    /\ site = 0
    /\ stack = <<>>
    /\ mem \in [Cells -> Values]
    /\ irq \in BOOLEAN
    /\ r0 \in Values
    /\ primLog = {}
    /\ returned = <<>>
    /\ aborted = FALSE

\* ---- the calling code ----
CallerWrite(c, v) ==
    /\ pc = "caller" /\ site < MaxSite
    /\ mem' = [mem EXCEPT ![c] = v]
    /\ site' = site + 1
    /\ UNCHANGED <<pc, stack, irq, r0, primLog, returned, aborted>>

CallerSetReg(v) ==
    /\ pc = "caller" /\ site < MaxSite
    /\ r0' = v
    /\ site' = site + 1
    /\ UNCHANGED <<pc, stack, mem, irq, primLog, returned, aborted>>

CallerDisableInterrupts ==
    /\ pc = "caller" /\ site < MaxSite
    /\ irq' = disable_interrupts(irq)
    /\ primLog' = primLog \cup {<<"caller", "disable_interrupts">>}
    /\ site' = site + 1
    /\ UNCHANGED <<pc, stack, mem, r0, returned, aborted>>

CallerEnableInterrupts ==
    /\ pc = "caller" /\ site < MaxSite
    /\ irq' = enable_interrupts(irq)
    /\ primLog' = primLog \cup {<<"caller", "enable_interrupts">>}
    /\ site' = site + 1
    /\ UNCHANGED <<pc, stack, mem, r0, returned, aborted>>

CallerWaitForInterrupt ==
    /\ pc = "caller" /\ site < MaxSite
    /\ irq' = wait_for_interrupt(irq)
    /\ primLog' = primLog \cup {<<"caller", "wait_for_interrupt">>}
    /\ site' = site + 1
    /\ UNCHANGED <<pc, stack, mem, r0, returned, aborted>>

\* ---- abort() ----

\* the call: control enters abort() at the loop test, return address saved
CallAbort ==
    /\ pc = "caller" /\ site < MaxSite
    /\ stack' = <<site + 1>> \o stack
    /\ pc' = "abort_test"
    /\ aborted' = TRUE
    /\ UNCHANGED <<site, mem, irq, r0, primLog, returned>>

\* mutation: the loop is missing; the void function reaches its end and returns
AbortTestFallsThrough ==
    /\ pc = "abort_test"
    /\ pc' = "caller"
    /\ site' = Head(stack)
    /\ stack' = Tail(stack)
    /\ UNCHANGED <<mem, irq, r0, primLog, returned, aborted>>

\* while(1): a true condition enters the body; a false one would leave the
\* loop, reach the end of the void function and return to the caller
AbortTest ==
    /\ pc = "abort_test"
    /\ IF LoopCond # 0
         THEN /\ pc' = "abort_body"
              /\ UNCHANGED <<site, stack>>
         ELSE /\ pc' = "caller"
              /\ site' = Head(stack)
              /\ stack' = Tail(stack)
    /\ UNCHANGED <<mem, irq, r0, primLog, returned, aborted>>

\* mutation: the loop body writes a diagnostic word to memory
AbortBodyLogs ==
    /\ pc = "abort_body"
    /\ pc' = "abort_test"
    /\ mem' = [mem EXCEPT ![1] = (mem[1] + 1) % (MaxVal + 1)]
    /\ UNCHANGED <<site, stack, irq, r0, primLog, returned, aborted>>

\* mutation: the loop body sleeps with wait_for_interrupt
AbortBodyWfi ==
    /\ pc = "abort_body"
    /\ pc' = "abort_test"
    /\ irq' = wait_for_interrupt(irq)
    /\ primLog' = primLog \cup {<<"abort", "wait_for_interrupt">>}
    /\ UNCHANGED <<site, stack, mem, r0, returned, aborted>>

\* the loop body is the empty statement; control goes back to the test
AbortBody ==
    /\ pc = "abort_body"
    /\ pc' = "abort_test"
    /\ UNCHANGED <<site, stack, mem, irq, r0, primLog, returned, aborted>>

\* ---- __aeabi_read_tp() ----

\* the call: control enters __aeabi_read_tp(), return address saved
CallReadTp ==
    /\ pc = "caller" /\ site < MaxSite
    /\ stack' = <<site + 1>> \o stack
    /\ pc' = "read_tp"
    /\ UNCHANGED <<site, mem, irq, r0, primLog, returned, aborted>>

\* mutation: the routine initialises a thread-local block before returning
ReadTpReturnInitsTls ==
    /\ pc = "read_tp"
    /\ r0' = ReadTpValue
    /\ returned' = Append(returned, ReadTpValue)
    /\ mem' = [c \in Cells |-> 0]
    /\ pc' = "caller"
    /\ site' = Head(stack)
    /\ stack' = Tail(stack)
    /\ UNCHANGED <<irq, primLog, aborted>>

\* mutation: the routine spins instead of returning
ReadTpSpins ==
    /\ pc = "read_tp"
    /\ UNCHANGED vars

\* the return statement: the null pointer goes to the result register
ReadTpReturn ==
    /\ pc = "read_tp"
    /\ r0' = ReadTpValue
    /\ returned' = Append(returned, ReadTpValue)
    /\ pc' = "caller"
    /\ site' = Head(stack)
    /\ stack' = Tail(stack)
    /\ UNCHANGED <<mem, irq, primLog, aborted>>

Next ==
    \/ \E c \in Cells, v \in Values : CallerWrite(c, v)
    \/ \E v \in Values : CallerSetReg(v)
    \/ CallerDisableInterrupts
    \/ CallerEnableInterrupts
    \/ CallerWaitForInterrupt
    \/ CallAbort
    \/ AbortTest
    \/ AbortBody
    \/ CallReadTp
    \/ ReadTpReturn

Spec == Init /\ [][Next]_vars

\* the processor executes the next instruction of a routine it is in
FairSpec == Spec /\ WF_vars(ReadTpReturn)

TypeOK ==
    /\ pc \in {"caller", "abort_test", "abort_body", "read_tp"}
    /\ site \in Sites
    /\ stack \in Seq(Sites) /\ Len(stack) <= 1
    /\ mem \in [Cells -> Values]
    /\ irq \in BOOLEAN
    /\ r0 \in Values
    /\ returned \in Seq(Values)
    /\ aborted \in BOOLEAN

\* C1: once abort() has been invoked control is inside abort() in every later
\* state (the program point after the call site is never reached), and being
\* inside abort() is absorbing.
AbortNeverReturns ==
    /\ [](aborted => InAbort)
    /\ [][InAbort => InAbort']_vars

AbortNeverReturnsWitness ==
    /\ aborted /\ pc = "abort_body"
    /\ returned # <<>>
    /\ stack = <<MaxSite>>

\* C2: every call of __aeabi_read_tp() returns the null pointer, whatever the
\* state before the call and however many calls came before; the result
\* register holds null right after each return.
ReadTpReturnsNull ==
    /\ [](\A i \in DOMAIN returned : returned[i] = 0)
    /\ [][(InReadTp /\ pc' = "caller") => r0' = 0]_vars

ReadTpReturnsNullWitness ==
    /\ pc = "caller"
    /\ Len(returned) >= 2
    /\ \E c \in Cells : mem[c] # 0

\* C3: every step taken while control is inside abort() leaves memory, the
\* interrupt state, the registers, the call stack and all recorded effects
\* unchanged.
AbortChangesNothing ==
    [][InAbort => UNCHANGED <<site, stack, mem, irq, r0, primLog, returned, aborted>>]_vars

AbortChangesNothingWitness ==
    /\ pc = "abort_body"
    /\ \E c \in Cells : mem[c] # 0
    /\ r0 # 0
    /\ irq

\* C4: a call of __aeabi_read_tp(), from its entry to its return, changes
\* nothing but the result register, the record of returned values and the
\* caller's control flow.
ReadTpNoSideEffect ==
    [][(InReadTp \/ InReadTp') => UNCHANGED <<mem, irq, primLog, aborted>>]_vars

ReadTpNoSideEffectWitness ==
    /\ pc = "caller" /\ ~aborted
    /\ Len(returned) >= 1
    /\ \A c \in Cells : mem[c] # 0
    /\ primLog # {}

\* C5: every interrupt primitive invoked so far was invoked by the calling
\* code, never by abort() or __aeabi_read_tp(), and no step of either routine
\* changes the interrupt-enable state.
StubsCallNoPrimitive ==
    /\ [](\A e \in primLog : e[1] = "caller")
    /\ [][(InAbort \/ InReadTp \/ InAbort' \/ InReadTp') => irq' = irq]_vars

StubsCallNoPrimitiveWitness ==
    /\ aborted /\ pc = "abort_test"
    /\ returned # <<>>
    /\ primLog # {}

\* C6: every call of __aeabi_read_tp() made before any abort() eventually
\* resumes the caller at the program point after the call site.
ReadTpTerminates ==
    \A s \in Sites :
        (InReadTp /\ stack = <<s>> /\ ~aborted) ~> (pc = "caller" /\ site = s)

ReadTpTerminatesWitness ==
    /\ pc = "caller" /\ ~aborted
    /\ returned # <<>>
    /\ site = MaxSite
====
